---- MODULE Spec2Model ----
(***************************************************************************)
(* Model of the live tracking engine of runningShowoff: the useGPSTracking *)
(* hook (src/app/hooks/useSettings.ts, second half), together with the     *)
(* running screen that drives it; and of its two stores, useRunHistory and *)
(* useSettings, which keep the run history and the settings in             *)
(* AsyncStorage; and of the formatters that render the statistics.         *)
(*                                                                         *)
(* Units.  The code keeps distances in metres and speeds in m/s as         *)
(* floating point numbers.  The model keeps distances in centimetres and   *)
(* speeds in cm/s so that 2.01 m and 99.99 m are integers; averageSpeed,   *)
(* a quotient, is kept as a reduced fraction <<numerator, denominator>>.   *)
(* Times are in milliseconds, elapsedTime in seconds, as in the code.      *)
(*                                                                         *)
(* Positions.  Fixes are taken on the equator (latitude 0) and their       *)
(* longitude is measured by the arc length from longitude 0, in cm.  On    *)
(* the equator the haversine formula of calculateDistance reduces to       *)
(* R * |dLambda|, the difference of the arc lengths.                       *)
(*                                                                         *)
(* Handles.  The handles of intervals and position watches are small       *)
(* integers; a handle is reused once its interval or watch is gone, which  *)
(* no ref can observe because stopTracking nulls the ref it clears.        *)
(*                                                                         *)
(* React.  A function of the hook reads `state` of the render that made    *)
(* it, so startTracking takes the hasPermission of its caller's render as  *)
(* a parameter; setState(prev => ...) updates are applied in order, one    *)
(* per step.                                                               *)
(***************************************************************************)
EXTENDS Integers, Sequences, FiniteSets, TLC

VARIABLES
    state,                  \* useState<GPSTrackingState>
    locationSubscription,   \* useRef: handle of the position watch, or Null
    lastLocation,           \* useRef: last delivered fix, or Null
    startTime,              \* useRef: Date.now() at the last tracking start
    timerInterval,          \* useRef: handle of the elapsed-time interval, or Null
    activeSubscriptions,    \* position watches registered with the OS and not removed
    activeTimers,           \* intervals created by setInterval and not cleared
    pendingWatch,           \* startTracking calls awaiting watchPositionAsync
    pendingPermission,      \* requestForegroundPermissionsAsync calls in flight
    now,                    \* Date.now()
    nFixes,                 \* number of fixes delivered so far
    last,                   \* the last operation of the hook (see Did and Seen)
    stepState,              \* useStepCounter: useState<StepCounterState>
    subscription,           \* useStepCounter: useState of the pedometer subscription, or Null
    activeStepSubscriptions,\* pedometer watches registered and not removed
    pendingAvailability,    \* Pedometer.isAvailableAsync() in flight
    nStepSubs,              \* number of pedometer watches created so far
    nStepEvents,            \* number of step events delivered so far
    lastSteps,              \* result.steps of the last step event delivered (0 before the first)
    cleanupSubscription,    \* `subscription` as captured by the cleanup of the hook's [subscription] effect
    lastStepSubscription,   \* the pedometer watch that delivered the last step event, or Null
    screen,                 \* ShowoffScreen: where the screen is in its life
    settingsLoading,        \* useSettings as mounted by ShowoffScreen: loadSettings() in flight
    lockRotation,           \* useSettings as mounted by ShowoffScreen: settings.lockRotation
    closePressed,           \* ShowoffScreen: handleClose has run
    effectSubscription,     \* `subscription` as captured by the cleanup of the screen's effect
    runs,                   \* useRunHistory: useState<RunSession[]>
    isLoading,              \* useRunHistory: useState(true)
    runHistoryItem,         \* AsyncStorage: the item under STORAGE_KEYS.RUN_HISTORY
    inFlight,               \* AsyncStorage requests of useRunHistory not yet answered, oldest first
    mounts,                 \* number of times useRunHistory has been mounted
    nSaves,                 \* number of saveRun calls so far
    lastDone,               \* the last request of useRunHistory that was answered
    settings,               \* useSettings as mounted by HomeScreen: useState<UserSettings>
    settingsIsLoading,      \* useSettings as mounted by HomeScreen: useState(true)
    userSettingsItem,       \* AsyncStorage: the item under STORAGE_KEYS.USER_SETTINGS
    settingsInFlight,       \* AsyncStorage requests of useSettings not yet answered, oldest first
    lastSettingsDone,       \* the last request of useSettings that was answered
    formatterCall,          \* formatters: the formatter being called and its arguments
    formatterText,          \* formatters: the text it returned, or NoText before it returns
    nCalls                  \* number of calls made on the stores so far

gpsVars == <<state, locationSubscription, lastLocation, startTime, timerInterval,
             activeSubscriptions, activeTimers, pendingWatch, pendingPermission,
             nFixes, last>>
stepVars == <<stepState, subscription, activeStepSubscriptions, pendingAvailability,
              nStepSubs, nStepEvents, lastSteps, cleanupSubscription, lastStepSubscription>>
screenVars == <<screen, settingsLoading, lockRotation, closePressed, effectSubscription>>

historyVars == <<runs, isLoading, runHistoryItem, inFlight, mounts, nSaves, lastDone>>
settingsVars == <<settings, settingsIsLoading, userSettingsItem, settingsInFlight, lastSettingsDone>>
storeVars == <<historyVars, settingsVars, nCalls>>
formatVars == <<formatterCall, formatterText>>

vars == <<gpsVars, now, stepVars, screenVars, storeVars, formatVars>>

Null == 0
\* the null of the lastLocation ref
NullLocation == [latitude |-> -1, longitude |-> -1]

\* ---- bounds of the model ----
\* intervals alive, and position watches alive or awaited, at the same time
MaxHandles == 2
\* fixes delivered
MaxFixes == 2
\* advances of the clock, of ClockStep (ScreenClockStep) ms each
MaxClockSteps == 2
\* permission requests in flight when a caller starts tracking
MaxPending == 1
\* pedometer events delivered
MaxStepEvents == 2
\* calls made on the stores by their callers: mounts of the history screen,
\* saveRun, deleteRun, clearAllRuns and saveSettings
MaxCalls == 3
\* saveRun calls, each awaited, when the cap of the history is exercised
MaxCapSaves == 101
\* every whole number of seconds up to this one is formatted
MaxSeconds == 3725
\* every whole number of metres up to this one is formatted, in both units
MaxMeters == 10100

\* the clock of a caller of the hook advances by 0.5 s
ClockStep == 500
\* the clock of the running screen advances by 0.6 s: a run sees 0 s, 0.6 s
\* and 1.2 s since its start
ScreenClockStep == 600

\* ---- inputs ----
\* arc lengths (cm) of the fixes: deltas of 2.00 m, 2.01 m, 99.99 m, 100.00 m occur
Positions == {0, 200, 201, 10200}
NoSpeed == -999
\* location.coords.speed in cm/s: absent, invalid (negative) or 3 m/s
Speeds == {NoSpeed, -100, 300}
Outcomes == {"granted", "denied", "error"}
\* result.steps of a pedometer event
StepDeltas == {1, 2}

\* a handle returned by setInterval or watchPositionAsync: one that no live
\* interval (watch) of the set S has
NewHandle(S) == CHOOSE h \in 1..(Cardinality(S) + 1) : h \notin S

Abs(x) == IF x < 0 THEN -x ELSE x
Max(a, b) == IF a >= b THEN a ELSE b

RECURSIVE GCD(_, _)
GCD(a, b) == IF b = 0 THEN a ELSE GCD(b, a % b)

\* the quotient n / d (d > 0, n >= 0) as a reduced fraction
Quot(n, d) == LET g == GCD(n, d) IN <<n \div g, d \div g>>

\* useState initial value
InitialState ==
    [isTracking |-> FALSE, distance |-> 0, currentSpeed |-> 0,
     averageSpeed |-> Quot(0, 1), elapsedTime |-> 0,
     hasPermission |-> FALSE, permissionError |-> FALSE]

\* the record of an operation of the life cycle (permission result, start,
\* stop, resolution of the watch): its input, and the snapshot and start time it found
Did(op, arg) ==
    [op |-> op, arg |-> arg, pre |-> state, preStart |-> startTime,
     fix |-> -1, speed |-> NoSpeed]
\* the record of a callback (fix, tick): its input only
Seen(op, arg) ==
    [op |-> op, arg |-> arg, pre |-> InitialState, preStart |-> 0,
     fix |-> -1, speed |-> NoSpeed]
\* the record of the location callback: the delta it measured (-1 without a
\* previous fix), the longitude of the fix, and the coords.speed it read
\* (it reads the speed of a fix whose delta it accepts, and of no other)
SeenFix(distanceDelta, longitude, speed) ==
    [Seen("locationCallback", distanceDelta) EXCEPT !.fix = longitude, !.speed = speed]

\* Haversine distance, for two points of the equator given by their arc length
calculateDistance(lat1, lon1, lat2, lon2) == Abs(lon2 - lon1)

\* noise gate of the location callback: 2 m and 100 m
MinDelta == 200
MaxDelta == 10000
Significant_Inclusive(distanceDelta) == distanceDelta >= MinDelta /\ distanceDelta < MaxDelta
Significant(distanceDelta) == distanceDelta > MinDelta /\ distanceDelta < MaxDelta

\* location.coords.speed || 0
SpeedOrZero(speed) == IF speed = NoSpeed \/ speed = 0 THEN 0 ELSE speed

\* what the location callback leaves in the lastLocation ref
DeliveredLocation_OnlyAccepted(previous, newLocation, accepted) ==
    IF accepted THEN newLocation ELSE previous
DeliveredLocation(previous, newLocation, accepted) == newLocation

\* the state update of requestPermissions
PermissionState_ErrorIgnored(prev, outcome) ==
    IF outcome = "granted" THEN [prev EXCEPT !.hasPermission = TRUE]
    ELSE IF outcome = "denied" THEN [prev EXCEPT !.permissionError = TRUE]
    ELSE prev
PermissionState(prev, outcome) ==
    IF outcome = "granted"
    THEN [prev EXCEPT !.hasPermission = TRUE]
    ELSE [prev EXCEPT !.permissionError = TRUE]

\* the state update of startTracking ("Reset state")
ResetState_SpeedsKept(prev) ==
    [prev EXCEPT !.isTracking = TRUE, !.distance = 0, !.elapsedTime = 0]
ResetState(prev) ==
    [prev EXCEPT !.isTracking = TRUE, !.distance = 0, !.currentSpeed = 0,
                 !.averageSpeed = Quot(0, 1), !.elapsedTime = 0]

\* the state update of the location callback for a significant delta;
\* sinceStart is Date.now() - startTime.current
AcceptedState_WholeSeconds(prev, distanceDelta, speed, sinceStart) ==
    LET newDistance == prev.distance + distanceDelta
        elapsed == Max((sinceStart \div 1000) * 1000, 1000)
    IN  [prev EXCEPT !.distance = newDistance,
                     !.currentSpeed = SpeedOrZero(speed),
                     !.averageSpeed = Quot(newDistance * 1000, elapsed)]
AcceptedState(prev, distanceDelta, speed, sinceStart) ==
    LET newDistance == prev.distance + distanceDelta
        elapsed == Max(sinceStart, 1000)
    IN  [prev EXCEPT !.distance = newDistance,
                     !.currentSpeed = SpeedOrZero(speed),
                     !.averageSpeed = Quot(newDistance * 1000, elapsed)]

\* the snapshot after a fix: one setState for an accepted fix, none otherwise
FixState_DistanceFirst(prev, accepted, distanceDelta, speed, sinceStart) ==
    IF accepted THEN [prev EXCEPT !.distance = prev.distance + distanceDelta] ELSE prev
FixState(prev, accepted, distanceDelta, speed, sinceStart) ==
    IF accepted THEN AcceptedState(prev, distanceDelta, speed, sinceStart) ELSE prev

\* the state update of the interval callback
ElapsedState_Counted(prev, sinceStart) ==
    [prev EXCEPT !.elapsedTime = prev.elapsedTime + 1]
ElapsedState(prev, sinceStart) ==
    [prev EXCEPT !.elapsedTime = sinceStart \div 1000]

\* the state update of stopTracking
StoppedState_Toggle(prev) == [prev EXCEPT !.isTracking = ~prev.isTracking]
StoppedState_Reset(prev) ==
    [prev EXCEPT !.isTracking = FALSE, !.distance = 0, !.currentSpeed = 0,
                 !.averageSpeed = Quot(0, 1), !.elapsedTime = 0]
StoppedState(prev) == [prev EXCEPT !.isTracking = FALSE]

\* useStepCounter: useState initial value
InitialStepState == [steps |-> 0, isAvailable |-> FALSE, isTracking |-> FALSE]

(***************************************************************************)
(* The stores: useRunHistory and useSettings over AsyncStorage.            *)
(*                                                                         *)
(* An item of AsyncStorage is kept as [kind, value]: kind "null" when      *)
(* nothing is stored under the key, "json" when the stored text parses to  *)
(* value, "corrupt" when JSON.parse throws on it.  The sessions and the    *)
(* settings of the model hold finite numbers, strings and booleans, which  *)
(* JSON.stringify followed by JSON.parse gives back unchanged.             *)
(*                                                                         *)
(* AsyncStorage runs the requests it is given one at a time, in the order  *)
(* in which they were made, so the requests in flight form a queue; the    *)
(* code after an await runs when the request at the head is answered.      *)
(***************************************************************************)

\* useRunHistory: the cap of the stored list
MAX_RUNS_STORED == 100

\* DEFAULT_SETTINGS of utils/constants
DEFAULT_SETTINGS ==
    [distanceUnit |-> "km", paceUnit |-> "min/km", speedUnit |-> "kmh",
     theme |-> "light", lockRotation |-> TRUE, gpsAccuracy |-> "high"]

\* the other value of every field of UserSettings
OtherSettings ==
    [distanceUnit |-> "miles", paceUnit |-> "min/mile", speedUnit |-> "mph",
     theme |-> "dark", lockRotation |-> FALSE, gpsAccuracy |-> "balanced"]

\* settings objects the settings modal hands to saveSettings
SettingsValues == {DEFAULT_SETTINGS, OtherSettings}

\* RunSession.settingsSnapshot taken from a settings object
Snapshot(s) ==
    [distanceUnit |-> s.distanceUnit, paceUnit |-> s.paceUnit, speedUnit |-> s.speedUnit]

\* a RunSession; the run with id k covered k km in 6 k minutes and 1300 k steps
RunSession(id, timestamp, from) ==
    [id |-> id, timestamp |-> timestamp, duration |-> 360 * id,
     distance |-> 100000 * id, averageSpeed |-> Quot(100000, 360),
     steps |-> 1300 * id, settingsSnapshot |-> Snapshot(from)]

\* start timestamps of the sessions handed to saveRun
Timestamps == {10, 30}

\* AsyncStorage items
NoItem == [kind |-> "null", value |-> <<>>]
CorruptItem == [kind |-> "corrupt", value |-> <<>>]
Stringified(value) == [kind |-> "json", value |-> value]

\* Array.prototype.slice(0, n)
Slice_Last(s, n) == SubSeq(s, IF Len(s) < n THEN 1 ELSE Len(s) - n + 1, Len(s))
Slice(s, n) == SubSeq(s, 1, IF Len(s) < n THEN Len(s) ELSE n)

\* runs.filter((run) => run.id !== runId)
Without(s, runId) == SelectSeq(s, LAMBDA run : run.id # runId)

\* Array.prototype.sort((a, b) => b.timestamp - a.timestamp), which is stable:
\* sessions with equal timestamps keep their order
compareRuns_Ascending(a, b) == a.timestamp - b.timestamp
compareRuns(a, b) == b.timestamp - a.timestamp

RECURSIVE InsertByTimestamp(_, _)
InsertByTimestamp(run, sorted) ==
    IF sorted = <<>> THEN <<run>>
    ELSE IF compareRuns(Head(sorted), run) <= 0
         THEN <<Head(sorted)>> \o InsertByTimestamp(run, Tail(sorted))
         ELSE <<run>> \o sorted

RECURSIVE SortNewestFirst(_)
SortNewestFirst(s) ==
    IF s = <<>> THEN <<>>
    ELSE InsertByTimestamp(s[Len(s)], SortNewestFirst(SubSeq(s, 1, Len(s) - 1)))

\* what the history key holds when the application starts: nothing, text that
\* does not parse, an empty list, or two sessions stored oldest first
StoredRuns ==
    <<RunSession(1, 10, DEFAULT_SETTINGS), RunSession(2, 20, OtherSettings)>>
InitialItems == {NoItem, CorruptItem, Stringified(<<>>), Stringified(StoredRuns)}

\* useGPSTracking after its first render and its mount effect, which has
\* called requestPermissions()
InitGPS ==
    /\ state = InitialState
    /\ locationSubscription = Null
    /\ lastLocation = NullLocation
    /\ startTime = 0
    /\ timerInterval = Null
    /\ activeSubscriptions = {}
    /\ activeTimers = {}
    /\ pendingWatch = 0
    /\ pendingPermission = 1
    /\ nFixes = 0
    /\ last = Seen("mount", Null)

\* useStepCounter after its first render and its mount effect, which has
\* called checkAvailability()
InitSteps ==
    /\ stepState = InitialStepState
    /\ subscription = Null
    /\ activeStepSubscriptions = {}
    /\ pendingAvailability = TRUE
    /\ nStepSubs = 0
    /\ nStepEvents = 0
    /\ lastSteps = 0
    /\ cleanupSubscription = Null
    /\ lastStepSubscription = Null

\* useSettings after its first render and its mount effect, which has called
\* loadSettings(); settings is DEFAULT_SETTINGS
InitSettings ==
    /\ settingsLoading = TRUE
    /\ lockRotation = TRUE

\* the hooks mounted in a component that has no effect of its own pending
InitScreen ==
    /\ screen = "mounted"
    /\ closePressed = FALSE
    /\ effectSubscription = Null
    /\ InitSettings

\* a request of useRunHistory to AsyncStorage, with what the code after the
\* await still holds: the caller, the id it was called for and the list it
\* computed
Request(caller, runId, value, mount) ==
    [caller |-> caller, runId |-> runId, value |-> value,
     mount |-> mount,
     behind |-> IF inFlight = <<>> THEN "nothing" ELSE inFlight[Len(inFlight)].caller]

\* the record kept of an answered request: who made it and for which id,
\* whether AsyncStorage and JSON.parse succeeded, and which request was the
\* last in flight when it was made
Answered(request, ok) ==
    [op |-> request.caller, runId |-> request.runId, ok |-> ok,
     behind |-> request.behind]

NothingDone == [op |-> "mount", runId |-> Null, ok |-> TRUE, behind |-> "nothing"]

\* useRunHistory not mounted by any component
HistoryNotMounted ==
    /\ runs = <<>>
    /\ isLoading = TRUE
    /\ runHistoryItem = NoItem
    /\ inFlight = <<>>
    /\ mounts = 0
    /\ nSaves = 0
    /\ lastDone = NothingDone

\* useRunHistory after its first render and its mount effect, which has called
\* loadRunHistory()
InitHistory ==
    /\ runs = <<>>
    /\ isLoading = TRUE
    /\ runHistoryItem \in InitialItems
    /\ inFlight = <<[caller |-> "loadRunHistory", runId |-> Null, value |-> <<>>,
                     mount |-> 1, behind |-> "nothing"]>>
    /\ mounts = 1
    /\ nSaves = 0
    /\ lastDone = NothingDone

\* a request of useSettings to AsyncStorage
SettingsRequest(caller, value) ==
    [caller |-> caller, value |-> value,
     behind |-> IF settingsInFlight = <<>> THEN "nothing"
                ELSE settingsInFlight[Len(settingsInFlight)].caller]

\* the record kept of an answered request of useSettings
SettingsAnswered(request, ok) ==
    [op |-> request.caller, value |-> request.value, ok |-> ok,
     behind |-> request.behind]

NoSettingsDone ==
    [op |-> "mount", value |-> DEFAULT_SETTINGS, ok |-> TRUE, behind |-> "nothing"]

\* what the settings key holds when the application starts
InitialSettingsItems ==
    {NoItem, CorruptItem, Stringified(DEFAULT_SETTINGS), Stringified(OtherSettings)}

\* useSettings not mounted by HomeScreen
SettingsNotMounted ==
    /\ settings = DEFAULT_SETTINGS
    /\ settingsIsLoading = TRUE
    /\ userSettingsItem = NoItem
    /\ settingsInFlight = <<>>
    /\ lastSettingsDone = NoSettingsDone

\* useSettings after its first render and its mount effect, which has called
\* loadSettings()
InitSettingsStore ==
    /\ settings = DEFAULT_SETTINGS
    /\ settingsIsLoading = TRUE
    /\ userSettingsItem \in InitialSettingsItems
    /\ settingsInFlight = <<[caller |-> "loadSettings", value |-> DEFAULT_SETTINGS,
                             behind |-> "nothing"]>>
    /\ lastSettingsDone = NoSettingsDone

(***************************************************************************)
(* The formatters.  A text is the sequence of its characters.  A distance  *)
(* is given in centimetres, as everywhere in the model, so the value that  *)
(* formatDistance converts to is the quotient of two integers: cm / 100000 *)
(* kilometres or cm / 160934 miles (1609.34 m).                            *)
(***************************************************************************)

NoText == <<>>
DigitChars == <<"0", "1", "2", "3", "4", "5", "6", "7", "8", "9">>

\* Number.prototype.toString of a whole number n >= 0
RECURSIVE toString(_)
toString(n) ==
    IF n < 10 THEN <<DigitChars[n + 1]>>
              ELSE toString(n \div 10) \o <<DigitChars[(n % 10) + 1]>>

\* String.prototype.padStart with a pad of one character
padStart_None(text, targetLength, padString) == text
padStart(text, targetLength, padString) ==
    IF Len(text) >= targetLength
    THEN text
    ELSE [i \in 1..(targetLength - Len(text)) |-> padString] \o text

formatTime(seconds) ==
    LET hours == seconds \div 3600
        minutes == (seconds % 3600) \div 60
        secs == seconds % 60
    IN  IF hours > 0
        THEN toString(hours) \o <<":">> \o padStart(toString(minutes), 2, "0")
                 \o <<":">> \o padStart(toString(secs), 2, "0")
        ELSE toString(minutes) \o <<":">> \o padStart(toString(secs), 2, "0")

Pow10(digits) == IF digits = 1 THEN 10 ELSE 100

\* the text of n / 10^digits with `digits` decimals
Fixed(n, digits) ==
    toString(n \div Pow10(digits)) \o <<".">>
        \o padStart(toString(n % Pow10(digits)), digits, "0")

\* Number.prototype.toFixed of the quotient num / den >= 0: the texts it can
\* return.  toFixed renders the multiple of 10^-digits nearest to the number
\* it is given.  When num / den lies exactly half way between two multiples,
\* the floating point number that the division produced lies a little to
\* one side or the other, so either neighbour can be rendered; in all other
\* cases the nearest multiple is the same for both.
toFixed(num, den, digits) ==
    LET twice == 2 * num * Pow10(digits)
        low == twice \div (2 * den)
        rest == twice % (2 * den)
    IN  IF rest < den THEN {Fixed(low, digits)}
        ELSE IF rest > den THEN {Fixed(low + 1, digits)}
        ELSE {Fixed(low, digits), Fixed(low + 1, digits)}

\* the divisor of the conversion of centimetres to the unit
UnitDivisor(unit) == IF unit = "km" THEN 100000 ELSE 160934

\* the number of decimals formatDistance asks of toFixed
DistanceDigits_AfterRounding(num, den) == IF 200 * num + den < 2000 * den THEN 2 ELSE 1
DistanceDigits(num, den) == IF num < 10 * den THEN 2 ELSE 1

\* formatDistance: the texts it can return for a distance in cm
formatDistance(distance, unit) ==
    toFixed(distance, UnitDivisor(unit), DistanceDigits(distance, UnitDivisor(unit)))

\* runs of several hours
LongRuns == {7199, 7200, 35999, 36000, 86399, 86400, 360000, 360001}
\* distances (cm) that are not whole metres or are long
OtherDistances == {999949, 999950, 999999, 1609339, 1609340, 1609341, 4219500}

FormatterCalls ==
    {[fn |-> "formatTime", value |-> seconds, unit |-> "s"] :
        seconds \in (0..MaxSeconds) \cup LongRuns}
    \cup {[fn |-> "formatDistance", value |-> distance, unit |-> unit] :
              distance \in {100 * meters : meters \in 0..MaxMeters} \cup OtherDistances,
              unit \in {"km", "miles"}}

\* no formatter is being called
NothingFormatted ==
    /\ formatterCall = [fn |-> "none", value |-> 0, unit |-> "s"]
    /\ formatterText = NoText

Init ==
    /\ InitGPS
    /\ InitSteps
    /\ InitScreen
    /\ now = 0
    /\ HistoryNotMounted
    /\ SettingsNotMounted
    /\ nCalls = 0
    /\ NothingFormatted

(***************************************************************************)
(* useGPSTracking.  Each definition constrains gpsVars only.               *)
(***************************************************************************)

\* requestPermissions up to its await
requestPermissions ==
    pendingPermission' = pendingPermission + 1

\* requestPermissions from its await on: the request is answered
requestPermissionsDone(outcome) ==
    /\ pendingPermission > 0
    /\ pendingPermission' = pendingPermission - 1
    /\ state' = PermissionState(state, outcome)
    /\ last' = Did("permissionResult", outcome)
    /\ UNCHANGED <<locationSubscription, lastLocation, startTime, timerInterval,
                   activeSubscriptions, activeTimers, pendingWatch,
                   nFixes>>

\* lastLocation.current = null: a run starts without a previous fix
StartLocation_Kept(previous) == previous
StartLocation(previous) == NullLocation

\* startTracking up to its first await; hasPermission is state.hasPermission
\* of the render whose closure is called
startTracking(hasPermission) ==
    IF ~hasPermission
    THEN /\ requestPermissions
         /\ last' = Did("startTracking", FALSE)
         /\ UNCHANGED <<state, locationSubscription, lastLocation, startTime,
                        timerInterval, activeSubscriptions, activeTimers,
                        pendingWatch, nFixes>>
    ELSE /\ state' = ResetState(state)
         /\ lastLocation' = StartLocation(lastLocation)
         /\ startTime' = now
         /\ timerInterval' = NewHandle(activeTimers)
         /\ activeTimers' = activeTimers \cup {NewHandle(activeTimers)}
         /\ pendingWatch' = pendingWatch + 1
         /\ last' = Did("startTracking", TRUE)
         /\ UNCHANGED <<locationSubscription, activeSubscriptions,
                        pendingPermission, nFixes>>

\* startTracking after its await: watchPositionAsync resolved with a subscription
watchPositionResolved ==
    /\ pendingWatch > 0
    /\ pendingWatch' = pendingWatch - 1
    /\ activeSubscriptions' = activeSubscriptions \cup {NewHandle(activeSubscriptions)}
    /\ locationSubscription' = NewHandle(activeSubscriptions)
    /\ last' = Did("watchResolved", Null)
    /\ UNCHANGED <<state, lastLocation, startTime, timerInterval, activeTimers,
                   pendingPermission, nFixes>>

\* startTracking after its await: watchPositionAsync rejected, the catch logs
watchPositionRejected ==
    /\ pendingWatch > 0
    /\ pendingWatch' = pendingWatch - 1
    /\ last' = Did("watchRejected", Null)
    /\ UNCHANGED <<state, locationSubscription, lastLocation, startTime,
                   timerInterval, activeSubscriptions, activeTimers,
                   pendingPermission, nFixes>>

\* the callback given to watchPositionAsync, called by a watch that is active
locationCallback(longitude, speed) ==
    /\ activeSubscriptions # {}
    /\ nFixes < MaxFixes
    /\ nFixes' = nFixes + 1
    /\ LET newLocation == [latitude |-> 0, longitude |-> longitude]
           distanceDelta ==
               IF lastLocation # NullLocation
               THEN calculateDistance(lastLocation.latitude, lastLocation.longitude,
                                      newLocation.latitude, newLocation.longitude)
               ELSE -1
       IN  /\ state' = FixState(state,
                                 lastLocation # NullLocation /\ Significant(distanceDelta),
                                 distanceDelta, speed, now - startTime)
           /\ lastLocation' =
                  DeliveredLocation(lastLocation, newLocation,
                                    lastLocation # NullLocation /\ Significant(distanceDelta))
           /\ last' = SeenFix(distanceDelta, longitude,
                              IF lastLocation # NullLocation /\ Significant(distanceDelta)
                              THEN speed ELSE NoSpeed)
    /\ UNCHANGED <<locationSubscription, startTime, timerInterval,
                   activeSubscriptions, activeTimers, pendingWatch,
                   pendingPermission>>

\* the setInterval callback of an interval that has not been cleared
timerCallback ==
    /\ activeTimers # {}
    /\ state' = ElapsedState(state, now - startTime)
    /\ last' = Seen("timerTick", Null)
    /\ UNCHANGED <<locationSubscription, lastLocation, startTime, timerInterval,
                   activeSubscriptions, activeTimers, pendingWatch,
                   pendingPermission, nFixes>>

stopTracking ==
    /\ activeSubscriptions' = IF locationSubscription # Null
                              THEN activeSubscriptions \ {locationSubscription}
                              ELSE activeSubscriptions
    /\ locationSubscription' = Null
    /\ activeTimers' = IF timerInterval # Null
                       THEN activeTimers \ {timerInterval}
                       ELSE activeTimers
    /\ timerInterval' = Null
    /\ state' = StoppedState(state)
    /\ last' = Did("stopTracking", Null)
    /\ UNCHANGED <<lastLocation, startTime, pendingWatch, pendingPermission,
                   nFixes>>

(***************************************************************************)
(* useStepCounter.  Each definition constrains stepVars only.  The effect  *)
(* on [subscription] removes the subscription of the previous render       *)
(* whenever `subscription` changes.                                        *)
(***************************************************************************)

\* checkAvailability from its await on
checkAvailabilityDone(available) ==
    /\ pendingAvailability
    /\ pendingAvailability' = FALSE
    /\ stepState' = [stepState EXCEPT !.isAvailable = available]
    /\ UNCHANGED <<subscription, activeStepSubscriptions, nStepSubs, nStepEvents, lastSteps>>
    /\ UNCHANGED <<cleanupSubscription, lastStepSubscription>>

\* startCounting; isAvailable is state.isAvailable of the render whose closure is called
startCounting(isAvailable) ==
    IF ~isAvailable
    THEN UNCHANGED stepVars
    ELSE /\ stepState' = [stepState EXCEPT !.steps = 0, !.isTracking = TRUE]
         /\ nStepSubs' = nStepSubs + 1
         /\ subscription' = nStepSubs + 1
         /\ activeStepSubscriptions' = activeStepSubscriptions \cup {nStepSubs + 1}
         /\ UNCHANGED <<pendingAvailability, nStepEvents, lastSteps>>
         /\ UNCHANGED <<cleanupSubscription, lastStepSubscription>>

\* stopCounting; sub is `subscription` of the render whose closure is called
stopCounting(sub) ==
    /\ IF sub # Null
       THEN /\ activeStepSubscriptions' = activeStepSubscriptions \ {sub}
            /\ subscription' = Null
       ELSE UNCHANGED <<activeStepSubscriptions, subscription>>
    /\ stepState' = [stepState EXCEPT !.isTracking = FALSE]
    /\ UNCHANGED <<pendingAvailability, nStepSubs, nStepEvents, lastSteps>>
    /\ UNCHANGED <<cleanupSubscription, lastStepSubscription>>

\* the [subscription] effect after a render in which `subscription` has
\* changed: React calls the cleanup of the previous render, which removes the
\* subscription of that render, and keeps the cleanup of the new one
subscriptionCleanup ==
    /\ cleanupSubscription # subscription
    /\ activeStepSubscriptions' = activeStepSubscriptions \ {cleanupSubscription}
    /\ cleanupSubscription' = subscription
    /\ UNCHANGED <<stepState, subscription, pendingAvailability, nStepSubs, nStepEvents>>
    /\ UNCHANGED <<lastSteps, lastStepSubscription>>

\* prev.steps + result.steps
CountedSteps_Replaced(prev, reported) == reported
CountedSteps(prev, reported) == prev + reported

\* the callback given to Pedometer.watchStepCount, called by the watch sub, which is active
stepCallback(sub, steps) ==
    /\ sub \in activeStepSubscriptions
    /\ nStepEvents < MaxStepEvents
    /\ nStepEvents' = nStepEvents + 1
    /\ lastSteps' = steps
    /\ lastStepSubscription' = sub
    /\ stepState' = [stepState EXCEPT !.steps = CountedSteps(stepState.steps, steps)]
    /\ UNCHANGED <<subscription, activeStepSubscriptions, pendingAvailability, nStepSubs>>
    /\ UNCHANGED cleanupSubscription

(***************************************************************************)
(* The tracking engine driven through its interface by any caller.         *)
(***************************************************************************)

PermissionResult(outcome) ==
    /\ requestPermissionsDone(outcome)
    /\ UNCHANGED <<now, stepVars, screenVars, storeVars, formatVars>>

\* a caller holding the startTracking of the latest render
StartTracking ==
    /\ Cardinality(activeTimers) < MaxHandles
    /\ Cardinality(activeSubscriptions) + pendingWatch < MaxHandles
    /\ pendingPermission < MaxPending
    /\ startTracking(state.hasPermission)
    /\ UNCHANGED <<now, stepVars, screenVars, storeVars, formatVars>>

WatchResolved ==
    /\ watchPositionResolved
    /\ UNCHANGED <<now, stepVars, screenVars, storeVars, formatVars>>

WatchRejected ==
    /\ watchPositionRejected
    /\ UNCHANGED <<now, stepVars, screenVars, storeVars, formatVars>>

LocationCallback(longitude, speed) ==
    /\ locationCallback(longitude, speed)
    /\ UNCHANGED <<now, stepVars, screenVars, storeVars, formatVars>>

TimerTick ==
    /\ timerCallback
    /\ UNCHANGED <<now, stepVars, screenVars, storeVars, formatVars>>

StopTracking ==
    /\ stopTracking
    /\ UNCHANGED <<now, stepVars, screenVars, storeVars, formatVars>>

\* time passes
AdvanceClock(step) ==
    /\ now + step <= MaxClockSteps * step
    /\ now' = now + step
    /\ UNCHANGED <<gpsVars, stepVars, screenVars, storeVars, formatVars>>

Next ==
    \/ \E outcome \in Outcomes : PermissionResult(outcome)
    \/ StartTracking
    \/ WatchResolved
    \/ WatchRejected
    \/ \E longitude \in Positions, speed \in Speeds : LocationCallback(longitude, speed)
    \/ TimerTick
    \/ StopTracking
    \/ AdvanceClock(ClockStep)

Spec == Init /\ [][Next]_vars

(***************************************************************************)
(* The tracking engine and the step counter driven by ShowoffScreen.       *)
(* screen is "mounting" after the first render, before the screen's effect *)
(* has run; "effectCleanup" and "effectRun" while React re-runs the effect *)
(* after settings.lockRotation changed; "unmounting" between the cleanups  *)
(* of the hooks and the cleanup of the screen's effect.                    *)
(***************************************************************************)

ScreenInit ==
    /\ InitGPS
    /\ InitSteps
    /\ InitSettings
    /\ now = 0
    /\ screen = "mounting"
    /\ closePressed = FALSE
    /\ effectSubscription = Null
    /\ HistoryNotMounted
    /\ SettingsNotMounted
    /\ nCalls = 0
    /\ NothingFormatted

\* the body of the screen's effect, with the closures of the render it belongs to
RunEffect ==
    /\ screen \in {"mounting", "effectRun"}
    /\ startTracking(state.hasPermission)
    /\ startCounting(stepState.isAvailable)
    /\ screen' = "mounted"
    /\ UNCHANGED <<now, settingsLoading, lockRotation, closePressed, effectSubscription>>
    /\ UNCHANGED <<storeVars, formatVars>>

\* loadSettings from its await on; stored is the lockRotation of the stored
\* settings (the default when nothing is stored or the read fails)
SettingsLoaded(stored) ==
    /\ screen = "mounted"
    /\ settingsLoading
    /\ settingsLoading' = FALSE
    /\ lockRotation' = stored
    /\ screen' = IF stored # lockRotation THEN "effectCleanup" ELSE screen
    /\ UNCHANGED <<gpsVars, now, stepVars, closePressed, effectSubscription>>
    /\ UNCHANGED <<storeVars, formatVars>>

\* the cleanup of the screen's effect, run because lockRotation changed
CleanupEffect ==
    /\ screen = "effectCleanup"
    /\ stopTracking
    /\ stopCounting(effectSubscription)
    /\ effectSubscription' = subscription
    /\ screen' = "effectRun"
    /\ UNCHANGED <<now, settingsLoading, lockRotation, closePressed>>
    /\ UNCHANGED <<storeVars, formatVars>>

\* checkAvailability of useStepCounter is answered
AvailabilityChecked(available) ==
    /\ screen = "mounted"
    /\ checkAvailabilityDone(available)
    /\ UNCHANGED <<gpsVars, now, screenVars>>
    /\ UNCHANGED <<storeVars, formatVars>>

StepCallback(steps) ==
    /\ screen = "mounted"
    /\ \E sub \in activeStepSubscriptions : stepCallback(sub, steps)
    /\ UNCHANGED <<gpsVars, now, screenVars>>
    /\ UNCHANGED <<storeVars, formatVars>>

\* result.steps of the step events the screen's hook is given; the screen
\* only displays the count
ScreenStepDeltas == {2}

\* React runs the [subscription] effect of useStepCounter
SubscriptionCleanup ==
    /\ screen = "mounted"
    /\ subscriptionCleanup
    /\ UNCHANGED <<gpsVars, now, screenVars>>
    /\ UNCHANGED <<storeVars, formatVars>>

\* the close button
HandleClose ==
    /\ screen = "mounted"
    /\ ~closePressed
    /\ stopTracking
    /\ stopCounting(subscription)
    /\ closePressed' = TRUE
    /\ UNCHANGED <<now, screen, settingsLoading, lockRotation, effectSubscription>>
    /\ UNCHANGED <<storeVars, formatVars>>

\* the screen is removed: the unmount cleanups of useGPSTracking and useStepCounter
UnmountHooks ==
    /\ screen = "mounted"
    /\ stopTracking
    /\ activeStepSubscriptions' = activeStepSubscriptions \ {cleanupSubscription}
    /\ screen' = "unmounting"
    /\ UNCHANGED <<stepState, subscription, pendingAvailability, nStepSubs, nStepEvents, lastSteps>>
    /\ UNCHANGED <<cleanupSubscription, lastStepSubscription>>
    /\ UNCHANGED <<now, settingsLoading, lockRotation, closePressed, effectSubscription>>
    /\ UNCHANGED <<storeVars, formatVars>>

\* the screen is removed: the cleanup of the screen's effect
UnmountScreen ==
    /\ screen = "unmounting"
    /\ stopTracking
    /\ stopCounting(effectSubscription)
    /\ screen' = "unmounted"
    /\ UNCHANGED <<now, settingsLoading, lockRotation, closePressed, effectSubscription>>
    /\ UNCHANGED <<storeVars, formatVars>>

\* what the operating system and the clock do while the screen is mounted
ScreenEvent ==
    /\ screen = "mounted"
    /\ \/ \E outcome \in Outcomes : PermissionResult(outcome)
       \/ WatchResolved
       \/ WatchRejected
       \/ \E longitude \in Positions, speed \in Speeds : LocationCallback(longitude, speed)
       \/ TimerTick
       \/ AdvanceClock(ScreenClockStep)

ScreenNext ==
    \/ RunEffect
    \/ \E stored \in BOOLEAN : SettingsLoaded(stored)
    \/ CleanupEffect
    \/ \E available \in BOOLEAN : AvailabilityChecked(available)
    \/ \E steps \in ScreenStepDeltas : StepCallback(steps)
    \/ SubscriptionCleanup
    \/ HandleClose
    \/ UnmountHooks
    \/ UnmountScreen
    \/ ScreenEvent

ScreenSpec == ScreenInit /\ [][ScreenNext]_vars

\* React runs pending effects; the operating system answers every request
ScreenFairness ==
    /\ WF_vars(RunEffect)
    /\ WF_vars(CleanupEffect)
    /\ WF_vars(SubscriptionCleanup)
    /\ WF_vars(\E stored \in BOOLEAN : SettingsLoaded(stored))
    /\ WF_vars(\E available \in BOOLEAN : AvailabilityChecked(available))
    /\ WF_vars(screen = "mounted" /\ \E outcome \in Outcomes : PermissionResult(outcome))
    /\ WF_vars(screen = "mounted" /\ (WatchResolved \/ WatchRejected))

ScreenFairSpec == ScreenSpec /\ ScreenFairness

(***************************************************************************)
(* useRunHistory.  Each definition constrains historyVars only.  A         *)
(* function of the hook reads `runs` of the render that made it, so        *)
(* saveRun and deleteRun take the runs of their caller's render as a       *)
(* parameter.  A component that has been replaced by a later mount         *)
(* ignores the state updates of the requests it left behind.               *)
(***************************************************************************)

\* the component is mounted (again): useState initial values and the mount effect
mountRunHistory ==
    /\ runs' = <<>>
    /\ isLoading' = TRUE
    /\ mounts' = mounts + 1
    /\ inFlight' = Append(inFlight, Request("loadRunHistory", Null, <<>>, mounts + 1))
    /\ UNCHANGED <<runHistoryItem, nSaves, lastDone>>

\* what loadRunHistory leaves in `runs`: the parsed list, sorted, when getItem
\* resolved with text that parses
LoadedRuns_RejectionIgnored(stored, readOk, current) ==
    IF stored.kind = "json" THEN SortNewestFirst(stored.value) ELSE current
LoadedRuns_Restamped(stored, readOk, current) ==
    IF readOk /\ stored.kind = "json"
    THEN [i \in 1..Len(stored.value) |->
            [SortNewestFirst(stored.value)[i] EXCEPT !.settingsSnapshot = Snapshot(settings)]]
    ELSE current
LoadedRuns(stored, readOk, current) ==
    IF readOk /\ stored.kind = "json" THEN SortNewestFirst(stored.value) ELSE current

\* loadRunHistory from its await on; readOk is false when getItem rejects
loadRunHistoryDone(readOk) ==
    /\ inFlight # <<>>
    /\ Head(inFlight).caller = "loadRunHistory"
    /\ LET request == Head(inFlight)
           stored == runHistoryItem
           thrown == ~readOk \/ stored.kind = "corrupt"
       IN  /\ inFlight' = Tail(inFlight)
           /\ IF request.mount = mounts
                 THEN /\ runs' = LoadedRuns(stored, readOk, runs)
                      /\ isLoading' = FALSE
                 ELSE UNCHANGED <<runs, isLoading>>
           /\ lastDone' = Answered(request, ~thrown)
    /\ UNCHANGED <<runHistoryItem, mounts, nSaves>>

\* saveRun up to its await
saveRun(closureRuns, run) ==
    /\ LET updatedRuns == <<run>> \o closureRuns
           trimmedRuns == Slice(updatedRuns, MAX_RUNS_STORED)
       IN  inFlight' = Append(inFlight, Request("saveRun", run.id, trimmedRuns, mounts))
    /\ nSaves' = nSaves + 1
    /\ UNCHANGED <<runs, isLoading, runHistoryItem, mounts, lastDone>>

\* saveRun from its await on; writeOk is false when setItem rejects
saveRunDone(writeOk) ==
    /\ inFlight # <<>>
    /\ Head(inFlight).caller = "saveRun"
    /\ LET request == Head(inFlight)
       IN  /\ inFlight' = Tail(inFlight)
           /\ runHistoryItem' = IF writeOk THEN Stringified(request.value) ELSE runHistoryItem
           /\ runs' = IF writeOk /\ request.mount = mounts THEN request.value ELSE runs
           /\ lastDone' = Answered(request, writeOk)
    /\ UNCHANGED <<isLoading, mounts, nSaves>>

\* deleteRun up to its await
deleteRun(closureRuns, runId) ==
    /\ LET updatedRuns == Without(closureRuns, runId)
       IN  inFlight' = Append(inFlight, Request("deleteRun", runId, updatedRuns, mounts))
    /\ UNCHANGED <<runs, isLoading, runHistoryItem, mounts, nSaves, lastDone>>

\* deleteRun from its await on
deleteRunDone(writeOk) ==
    /\ inFlight # <<>>
    /\ Head(inFlight).caller = "deleteRun"
    /\ LET request == Head(inFlight)
       IN  /\ inFlight' = Tail(inFlight)
           /\ runHistoryItem' = IF writeOk THEN Stringified(request.value) ELSE runHistoryItem
           /\ runs' = IF writeOk /\ request.mount = mounts THEN request.value ELSE runs
           /\ lastDone' = Answered(request, writeOk)
    /\ UNCHANGED <<isLoading, mounts, nSaves>>

\* clearAllRuns up to its await
clearAllRuns ==
    /\ inFlight' = Append(inFlight, Request("clearAllRuns", Null, <<>>, mounts))
    /\ UNCHANGED <<runs, isLoading, runHistoryItem, mounts, nSaves, lastDone>>

\* what clearAllRuns leaves in `runs` after removeItem resolved
ClearedRuns_Kept(current) == current
ClearedRuns(current) == <<>>

\* clearAllRuns from its await on; writeOk is false when removeItem rejects
clearAllRunsDone(writeOk) ==
    /\ inFlight # <<>>
    /\ Head(inFlight).caller = "clearAllRuns"
    /\ LET request == Head(inFlight)
       IN  /\ inFlight' = Tail(inFlight)
           /\ runHistoryItem' = IF writeOk THEN NoItem ELSE runHistoryItem
           /\ runs' = IF writeOk /\ request.mount = mounts THEN ClearedRuns(runs) ELSE runs
           /\ lastDone' = Answered(request, writeOk)
    /\ UNCHANGED <<isLoading, mounts, nSaves>>

\* generateRunId: a fresh id; the stored sessions hold the ids 1 and 2
generateRunId == Len(StoredRuns) + nSaves + 1

(***************************************************************************)
(* useSettings as mounted by HomeScreen.  Each definition constrains       *)
(* settingsVars only.                                                      *)
(***************************************************************************)

\* what loadSettings leaves in `settings`: the parsed object when getItem
\* resolved with text that parses
LoadedSettings_RejectionIgnored(stored, readOk, current) ==
    IF stored.kind = "json" THEN stored.value ELSE current
LoadedSettings(stored, readOk, current) ==
    IF readOk /\ stored.kind = "json" THEN stored.value ELSE current

\* loadSettings from its await on; readOk is false when getItem rejects
loadSettingsDone(readOk) ==
    /\ settingsInFlight # <<>>
    /\ Head(settingsInFlight).caller = "loadSettings"
    /\ LET request == Head(settingsInFlight)
           stored == userSettingsItem
           thrown == ~readOk \/ stored.kind = "corrupt"
       IN  /\ settingsInFlight' = Tail(settingsInFlight)
           /\ settings' = LoadedSettings(stored, readOk, settings)
           /\ settingsIsLoading' = FALSE
           /\ lastSettingsDone' = SettingsAnswered(request, ~thrown)
    /\ UNCHANGED userSettingsItem

\* saveSettings up to its await
saveSettings(newSettings) ==
    /\ settingsInFlight' = Append(settingsInFlight, SettingsRequest("saveSettings", newSettings))
    /\ UNCHANGED <<settings, settingsIsLoading, userSettingsItem, lastSettingsDone>>

\* what saveSettings leaves in `settings`: the new object once setItem resolved
SavedSettings_Optimistic(writeOk, newSettings, current) == newSettings
SavedSettings(writeOk, newSettings, current) == IF writeOk THEN newSettings ELSE current

\* what AsyncStorage.setItem leaves under the settings key: the text of the
\* new object, unless it rejects
WrittenSettings_Dropped(writeOk, newSettings, item) == item
WrittenSettings(writeOk, newSettings, item) ==
    IF writeOk THEN Stringified(newSettings) ELSE item

\* saveSettings from its await on; writeOk is false when setItem rejects
saveSettingsDone(writeOk) ==
    /\ settingsInFlight # <<>>
    /\ Head(settingsInFlight).caller = "saveSettings"
    /\ LET request == Head(settingsInFlight)
       IN  /\ settingsInFlight' = Tail(settingsInFlight)
           /\ userSettingsItem' = WrittenSettings(writeOk, request.value, userSettingsItem)
           /\ settings' = SavedSettings(writeOk, request.value, settings)
           /\ lastSettingsDone' = SettingsAnswered(request, writeOk)
    /\ UNCHANGED settingsIsLoading

(***************************************************************************)
(* The two stores driven through their interfaces by any caller: the       *)
(* history screen is opened, deletes and clears, the settings modal saves  *)
(* settings, and a caller of saveRun hands over the session of a finished  *)
(* run, with a fresh id and the units of the settings in effect.           *)
(***************************************************************************)

\* ids a caller asks deleteRun to remove: those of the stored sessions and the
\* first fresh one
RunIds == 1..(Len(StoredRuns) + 1)

\* a call is made on one of the stores
Call ==
    /\ nCalls < MaxCalls
    /\ nCalls' = nCalls + 1

MountRunHistory ==
    /\ Call
    /\ mountRunHistory
    /\ UNCHANGED <<formatVars, gpsVars, now, stepVars, screenVars, settingsVars>>

LoadRunHistoryDone(readOk) ==
    /\ loadRunHistoryDone(readOk)
    /\ UNCHANGED <<formatVars, gpsVars, now, stepVars, screenVars, settingsVars, nCalls>>

\* a caller holding the saveRun of the latest render
SaveRun(timestamp) ==
    /\ Call
    /\ saveRun(runs, RunSession(generateRunId, timestamp, settings))
    /\ UNCHANGED <<formatVars, gpsVars, now, stepVars, screenVars, settingsVars>>

SaveRunDone(writeOk) ==
    /\ saveRunDone(writeOk)
    /\ UNCHANGED <<formatVars, gpsVars, now, stepVars, screenVars, settingsVars, nCalls>>

\* a caller holding the deleteRun of the latest render
DeleteRun(runId) ==
    /\ Call
    /\ deleteRun(runs, runId)
    /\ UNCHANGED <<formatVars, gpsVars, now, stepVars, screenVars, settingsVars>>

DeleteRunDone(writeOk) ==
    /\ deleteRunDone(writeOk)
    /\ UNCHANGED <<formatVars, gpsVars, now, stepVars, screenVars, settingsVars, nCalls>>

ClearAllRuns ==
    /\ Call
    /\ clearAllRuns
    /\ UNCHANGED <<formatVars, gpsVars, now, stepVars, screenVars, settingsVars>>

ClearAllRunsDone(writeOk) ==
    /\ clearAllRunsDone(writeOk)
    /\ UNCHANGED <<formatVars, gpsVars, now, stepVars, screenVars, settingsVars, nCalls>>

LoadSettingsDone(readOk) ==
    /\ loadSettingsDone(readOk)
    /\ UNCHANGED <<formatVars, gpsVars, now, stepVars, screenVars, historyVars, nCalls>>

SaveSettings(newSettings) ==
    /\ Call
    /\ saveSettings(newSettings)
    /\ UNCHANGED <<formatVars, gpsVars, now, stepVars, screenVars, historyVars>>

SaveSettingsDone(writeOk) ==
    /\ saveSettingsDone(writeOk)
    /\ UNCHANGED <<formatVars, gpsVars, now, stepVars, screenVars, historyVars, nCalls>>

\* useSettings of HomeScreen after loadSettings() found nothing stored
SettingsLoadedEmpty ==
    /\ settings = DEFAULT_SETTINGS
    /\ settingsIsLoading = FALSE
    /\ userSettingsItem = NoItem
    /\ settingsInFlight = <<>>
    /\ lastSettingsDone = [op |-> "loadSettings", value |-> DEFAULT_SETTINGS,
                           ok |-> TRUE, behind |-> "nothing"]

\* the history screen has just been opened for the first time
HistoryInit ==
    /\ InitGPS
    /\ InitSteps
    /\ InitScreen
    /\ now = 0
    /\ InitHistory
    /\ SettingsLoadedEmpty
    /\ nCalls = 0
    /\ NothingFormatted

HistoryNext ==
    \/ MountRunHistory
    \/ \E readOk \in BOOLEAN : LoadRunHistoryDone(readOk)
    \/ \E timestamp \in Timestamps : SaveRun(timestamp)
    \/ \E writeOk \in BOOLEAN : SaveRunDone(writeOk)
    \/ \E runId \in RunIds : DeleteRun(runId)
    \/ \E writeOk \in BOOLEAN : DeleteRunDone(writeOk)
    \/ ClearAllRuns
    \/ \E writeOk \in BOOLEAN : ClearAllRunsDone(writeOk)
    \/ \E newSettings \in SettingsValues : SaveSettings(newSettings)
    \/ \E writeOk \in BOOLEAN : SaveSettingsDone(writeOk)

HistorySpec == HistoryInit /\ [][HistoryNext]_vars

(***************************************************************************)
(* The history filled by one caller that awaits every saveRun before the   *)
(* next, from an empty store, with storage that accepts every write: the   *)
(* k-th run started at timestamp k.                                        *)
(***************************************************************************)

CapInit ==
    /\ InitGPS
    /\ InitSteps
    /\ InitScreen
    /\ now = 0
    /\ InitHistory
    /\ runHistoryItem = NoItem
    /\ SettingsLoadedEmpty
    /\ nCalls = 0
    /\ NothingFormatted

AwaitedSaveRun ==
    /\ inFlight = <<>>
    /\ nSaves < MaxCapSaves
    /\ saveRun(runs, RunSession(generateRunId, nSaves + 1, DEFAULT_SETTINGS))
    /\ UNCHANGED <<formatVars, gpsVars, now, stepVars, screenVars, settingsVars, nCalls>>

CapNext ==
    \/ \E readOk \in BOOLEAN : LoadRunHistoryDone(readOk)
    \/ AwaitedSaveRun
    \/ SaveRunDone(TRUE)

CapSpec == CapInit /\ [][CapNext]_vars

\* HomeScreen has just been opened: its useSettings is loading
SettingsInit ==
    /\ InitGPS
    /\ InitSteps
    /\ InitScreen
    /\ now = 0
    /\ HistoryNotMounted
    /\ InitSettingsStore
    /\ nCalls = 0
    /\ NothingFormatted

SettingsNext ==
    \/ \E readOk \in BOOLEAN : LoadSettingsDone(readOk)
    \/ \E newSettings \in SettingsValues : SaveSettings(newSettings)
    \/ \E writeOk \in BOOLEAN : SaveSettingsDone(writeOk)

SettingsSpec == SettingsInit /\ [][SettingsNext]_vars

(***************************************************************************)
(* The formatters called on every value of FormatterCalls.                 *)
(***************************************************************************)

FormatInit ==
    /\ InitGPS
    /\ InitSteps
    /\ InitScreen
    /\ now = 0
    /\ HistoryNotMounted
    /\ SettingsNotMounted
    /\ nCalls = 0
    /\ formatterCall \in FormatterCalls
    /\ formatterText = NoText

FormatTime ==
    /\ formatterCall.fn = "formatTime"
    /\ formatterText = NoText
    /\ formatterText' = formatTime(formatterCall.value)
    /\ UNCHANGED <<formatterCall, gpsVars, now, stepVars, screenVars, storeVars>>

FormatDistance ==
    /\ formatterCall.fn = "formatDistance"
    /\ formatterText = NoText
    /\ formatterText' \in formatDistance(formatterCall.value, formatterCall.unit)
    /\ UNCHANGED <<formatterCall, gpsVars, now, stepVars, screenVars, storeVars>>

FormatNext ==
    \/ FormatTime
    \/ FormatDistance

FormatSpec == FormatInit /\ [][FormatNext]_vars

(***************************************************************************)
(* The step counter driven through its interface by any caller, whose      *)
(* closures are those of the latest render.                                *)
(***************************************************************************)

CounterFrame == UNCHANGED <<gpsVars, now, screenVars, storeVars, formatVars>>

CounterAvailability(available) ==
    /\ checkAvailabilityDone(available)
    /\ CounterFrame

CounterStart ==
    /\ nStepSubs < MaxHandles
    /\ startCounting(stepState.isAvailable)
    /\ CounterFrame

CounterStop ==
    /\ stopCounting(subscription)
    /\ CounterFrame

CounterCleanup ==
    /\ subscriptionCleanup
    /\ CounterFrame

CounterEvent(sub, steps) ==
    /\ stepCallback(sub, steps)
    /\ CounterFrame

CounterNext ==
    \/ \E available \in BOOLEAN : CounterAvailability(available)
    \/ CounterStart
    \/ CounterStop
    \/ CounterCleanup
    \/ \E sub \in activeStepSubscriptions, steps \in StepDeltas : CounterEvent(sub, steps)

CounterSpec == Init /\ [][CounterNext]_vars

(***************************************************************************)
(* Properties of the tracking engine                                       *)
(***************************************************************************)

\* a step that begins a run: startTracking past its permission check
TrackingStart == pendingWatch' = pendingWatch + 1

\* a step that delivers a fix to the location callback
FixStep == nFixes' = nFixes + 1

\* the four accumulators of the snapshot
Accumulators(st) == <<st.distance, st.currentSpeed, st.averageSpeed, st.elapsedTime>>

\* C1: within a tracking session, that is across every step that is not the
\* start of a new run (fixes, accepted or rejected, timer ticks, stops),
\* distance never decreases.
C1_DistanceMonotone ==
    [][~TrackingStart => state'.distance >= state.distance]_vars

\* a fix has been accepted during a run and has increased distance by its delta
C1_Witness ==
    /\ last.op = "locationCallback"
    /\ state.isTracking
    /\ last.arg > 0
    /\ state.distance = last.arg

\* C2: after a startTracking called with permission granted on an engine
\* that is not tracking, distance, currentSpeed, averageSpeed and elapsedTime
\* are 0 and isTracking is true, whatever the snapshot held before.
C2_StartResets ==
    (last.op = "startTracking" /\ last.pre.hasPermission /\ ~last.pre.isTracking)
        => /\ state.isTracking
           /\ state.distance = 0
           /\ state.currentSpeed = 0
           /\ state.averageSpeed = Quot(0, 1)
           /\ state.elapsedTime = 0

\* a start after a stopped run that had left every accumulator non-zero
C2_Witness ==
    /\ last.op = "startTracking"
    /\ last.pre.hasPermission
    /\ ~last.pre.isTracking
    /\ last.pre.distance > 0
    /\ last.pre.currentSpeed # 0
    /\ last.pre.averageSpeed # Quot(0, 1)
    /\ last.pre.elapsedTime > 0
    /\ state.isTracking

\* C3: startTracking called while the engine is tracking changes neither
\* the accumulators nor the recorded start timestamp.
C3_StartWhileTrackingNoOp ==
    (last.op = "startTracking" /\ last.pre.isTracking)
        => /\ Accumulators(state) = Accumulators(last.pre)
           /\ startTime = last.preStart

\* C4: at most one position watch, one elapsed-time interval and one
\* pedometer watch are active at any time.
C4_SingleSubscriptions ==
    /\ Cardinality(activeSubscriptions) <= 1
    /\ Cardinality(activeTimers) <= 1
    /\ Cardinality(activeStepSubscriptions) <= 1

\* C5: while the engine is stopped (stopTracking has returned and no run has
\* been started since), no step changes distance, currentSpeed, averageSpeed
\* or elapsedTime.
C5_NothingAfterStop ==
    [][(~state.isTracking /\ ~TrackingStart)
           => Accumulators(state') = Accumulators(state)]_vars

\* the engine is tracking: isTracking, a position watch and the interval are in place
Tracking ==
    /\ state.isTracking
    /\ locationSubscription # Null
    /\ timerInterval # Null

\* the user has closed the screen or it has been removed
ScreenLeft == closePressed \/ screen \in {"unmounting", "unmounted"}

\* C6: once the screen has started a run without permission and the
\* permission has then been granted, the engine eventually is tracking,
\* unless the user leaves the screen first.
C6_GrantLeadsToTracking ==
    (state.hasPermission /\ ~state.permissionError /\ ~ScreenLeft)
        ~> (Tracking \/ ScreenLeft)

\* C7: a fix that has a previous fix adds its great-circle delta to distance
\* exactly when 2 m < delta < 100 m; otherwise (in particular at exactly 2 m
\* and at exactly 100 m) the snapshot is left as it was.
C7_NoiseGate ==
    [][(FixStep /\ lastLocation # NullLocation)
           => LET delta == Abs(lastLocation'.longitude - lastLocation.longitude)
              IN  IF 200 < delta /\ delta < 10000
                  THEN state'.distance = state.distance + delta
                  ELSE state' = state]_vars

\* a fix exactly 2 m from the previous one was delivered and added nothing
C7_Witness ==
    /\ last.op = "locationCallback"
    /\ last.arg = 200
    /\ state.distance = 0
    /\ state.isTracking

\* C8: stopTracking on an engine that is not tracking leaves the snapshot as it was.
C8_StopIdempotent ==
    (last.op = "stopTracking" /\ ~last.pre.isTracking) => state = last.pre

\* a stop of an engine that an earlier stop had left idle after a run with distance
C8_Witness ==
    /\ last.op = "stopTracking"
    /\ ~last.pre.isTracking
    /\ last.pre.distance > 0
    /\ ~state.isTracking

\* C9: stopTracking changes only isTracking, to false, and the snapshot it
\* leaves is not changed by anything until the next start of a run.
C9_StopFrame ==
    [][/\ (last'.op = "stopTracking" /\ last' # last)
              => state' = [state EXCEPT !.isTracking = FALSE]
       /\ (~state.isTracking /\ ~TrackingStart)
              => Accumulators(state') = Accumulators(state)]_vars

\* a step in which a permission request is answered with a refusal or fails
DenialStep ==
    /\ pendingPermission' = pendingPermission - 1
    /\ last'.op = "permissionResult"
    /\ last'.arg # "granted"

\* C10: when a permission request is refused or fails, permissionError
\* becomes true and nothing else changes: the accumulators and isTracking
\* keep their values, an engine without permission is not tracking, and no
\* position watch or interval is created; a startTracking without permission
\* only issues the request.
C10_PermissionDenied ==
    [][/\ DenialStep
              => /\ state' = [state EXCEPT !.permissionError = TRUE]
                 /\ ~state.hasPermission => ~state'.isTracking
                 /\ UNCHANGED <<activeSubscriptions, activeTimers, pendingWatch,
                                locationSubscription, timerInterval>>
       /\ pendingPermission' = pendingPermission + 1
              => /\ state' = state
                 /\ UNCHANGED <<activeSubscriptions, activeTimers, pendingWatch,
                                locationSubscription, timerInterval>>]_vars

\* the request issued by a startTracking (the second request of the hook) was refused
C10_Witness ==
    /\ last.op = "permissionResult"
    /\ last.arg = "denied"
    /\ last.pre.permissionError
    /\ state.permissionError
    /\ ~state.hasPermission
    /\ ~state.isTracking
    /\ activeSubscriptions = {}
    /\ activeTimers = {}

(***************************************************************************)
(* Properties of the run history and of the settings store                 *)
(***************************************************************************)

\* C11: a run that was started and then stopped by the close button has handed
\* exactly one RunSession to saveRun.
C11_StopSavesRun ==
    (closePressed /\ last.op = "stopTracking" /\ last.pre.isTracking) => nSaves = 1

\* the session that the k-th awaited saveRun of CapSpec was given
CapRun(k) == RunSession(Len(StoredRuns) + k, k, DEFAULT_SETTINGS)

Min(a, b) == IF a <= b THEN a ELSE b

\* C12: after n awaited saveRun calls into an empty store the in-memory list and
\* the persisted list hold the min(n, 100) most recently saved sessions, most
\* recent first; the save into a full list drops the entry at its end only.
C12_HistoryCap ==
    inFlight = <<>> =>
        /\ Len(runs) = Min(nSaves, MAX_RUNS_STORED)
        /\ \A i \in 1..Len(runs) : runs[i] = CapRun(nSaves - i + 1)
        /\ runHistoryItem = IF nSaves = 0 THEN NoItem ELSE Stringified(runs)

\* the save after the hundredth has been answered
C12_Witness ==
    /\ inFlight = <<>>
    /\ nSaves = MAX_RUNS_STORED + 1
    /\ Len(runs) = MAX_RUNS_STORED
    /\ runs[MAX_RUNS_STORED] = CapRun(2)

\* a step in which the request at the head of the queue is answered
AnswerStep == inFlight # <<>> /\ inFlight' = Tail(inFlight)

\* the mutation of a saveRun or deleteRun request applied to a list
Applied(request, list) ==
    IF request.caller = "saveRun"
    THEN Slice(<<request.value[1]>> \o list, MAX_RUNS_STORED)
    ELSE Without(list, request.runId)

\* a step that answers, with a successful write, a saveRun or deleteRun that
\* was called while the saveRun or deleteRun answered before it, successfully
\* too, was in flight
SecondMutationStep ==
    /\ AnswerStep
    /\ Head(inFlight).caller \in {"saveRun", "deleteRun"}
    /\ Head(inFlight).behind \in {"saveRun", "deleteRun"}
    /\ Head(inFlight).mount = mounts
    /\ lastDone.ok
    /\ lastDone'.ok

\* C13: of two mutations issued without waiting for the first, the second is
\* applied to the list the first has left, in memory and in storage, so that
\* neither is lost.
C13_MutationsSerialize ==
    [][SecondMutationStep =>
          /\ runs' = Applied(Head(inFlight), runs)
          /\ runHistoryItem' = Stringified(runs')]_vars

\* a step that answers, with a successful write, a deleteRun of the mounted
\* history screen
DeleteStep ==
    /\ AnswerStep
    /\ Head(inFlight).caller = "deleteRun"
    /\ Head(inFlight).mount = mounts
    /\ lastDone'.ok

\* C14: a completed deleteRun(id) takes the session with that id out of the
\* list and leaves every other session in its place; the list is unchanged when
\* no session has that id.
C14_DeleteFrame ==
    [][DeleteStep => runs' = Without(runs, Head(inFlight).runId)]_vars

\* the number of times a session occurs in a list
Count(run, list) == Cardinality({i \in 1..Len(list) : list[i] = run})

\* two lists hold the same sessions
SameSessions(a, b) ==
    /\ Len(a) = Len(b)
    /\ \A i \in 1..Len(a) : Count(a[i], a) = Count(a[i], b)

\* a list is ordered by start timestamp, latest first
NewestFirst(list) ==
    \A i, j \in 1..Len(list) : i < j => list[i].timestamp >= list[j].timestamp

\* the mounted history screen has loaded, and no request was answered since
Loaded == lastDone.op = "loadRunHistory" /\ lastDone.ok /\ ~isLoading

\* C15: when loadRunHistory has completed without an error, the in-memory list
\* holds exactly the persisted sessions, latest start first, whatever their
\* order in storage.
C15_LoadSorts ==
    Loaded =>
        /\ SameSessions(runs, runHistoryItem.value)
        /\ NewestFirst(runs)

\* the two sessions stored oldest first have been loaded
C15_Witness ==
    /\ Loaded
    /\ runHistoryItem = Stringified(StoredRuns)
    /\ runs = <<StoredRuns[2], StoredRuns[1]>>

\* a step that answers a saveRun of the mounted history screen with a failed write
FailedSaveStep ==
    /\ AnswerStep
    /\ Head(inFlight).caller = "saveRun"
    /\ Head(inFlight).mount = mounts
    /\ ~lastDone'.ok

\* C16: when the write of a saveRun fails, the in-memory list still has the new
\* session at its head.
C16_FailedSaveKeepsSession ==
    [][FailedSaveStep =>
          /\ runs' # <<>>
          /\ Head(runs') = Head(inFlight).value[1]]_vars

\* a loadRunHistory is waiting for its answer
LoadInFlight == \E i \in 1..Len(inFlight) : inFlight[i].caller = "loadRunHistory"

\* the load of the mounted history screen has failed, and no request was
\* answered since
LoadFailed == lastDone.op = "loadRunHistory" /\ ~lastDone.ok /\ ~LoadInFlight

\* C17: when getItem rejects or the stored text does not parse, loading ends
\* (isLoading is false) with an empty in-memory list.
C17_LoadFailureEmpty ==
    LoadFailed => ~isLoading /\ runs = <<>>

\* getItem has rejected while two sessions were stored
C17_Witness ==
    /\ LoadFailed
    /\ runHistoryItem = Stringified(StoredRuns)
    /\ ~isLoading

\* C18: when clearAllRuns has completed successfully, also one called while a
\* saveRun or deleteRun was in flight, the in-memory list is empty and nothing
\* is persisted; a load that finds nothing persisted leaves the list empty.
C18_ClearEmpties ==
    /\ (lastDone.op = "clearAllRuns" /\ lastDone.ok) =>
           (runs = <<>> /\ runHistoryItem = NoItem)
    /\ (lastDone.op = "loadRunHistory" /\ ~LoadInFlight /\ runHistoryItem = NoItem) =>
           (runs = <<>> /\ ~isLoading)

\* a clearAllRuns called while a saveRun was in flight has been answered
C18_Witness ==
    /\ lastDone.op = "clearAllRuns"
    /\ lastDone.ok
    /\ lastDone.behind = "saveRun"
    /\ runs = <<>>
    /\ runHistoryItem = NoItem

\* the sessions of a list
Elements(list) == {list[i] : i \in 1..Len(list)}

\* every session the history holds: in memory, in storage, or in a list that a
\* request in flight is about to write
AllSessions ==
    Elements(runs) \cup Elements(runHistoryItem.value)
        \cup UNION {Elements(inFlight[i].value) : i \in 1..Len(inFlight)}

\* C19: no step of the stores (load, saveRun, deleteRun, clearAllRuns, a settings
\* save) changes a field of a session: every session held after the step was
\* held before it with the same fields, units snapshot included, or is the
\* session handed to the saveRun of that step.
C19_SessionsImmutable ==
    [][\A run \in AllSessions' : run \in AllSessions \/ run.id = generateRunId]_vars

\* a run saved under the other units is listed unchanged after the settings
\* were saved back to the defaults
C19_Witness ==
    /\ lastSettingsDone.op = "saveSettings"
    /\ lastSettingsDone.ok
    /\ settings = DEFAULT_SETTINGS
    /\ \E i \in 1..Len(runs) :
          /\ runs[i].id = Len(StoredRuns) + 1
          /\ runs[i].settingsSnapshot = Snapshot(OtherSettings)

\* loadSettings has been answered and found nothing stored, text that does not
\* parse, or a rejected read; no saveSettings was answered since
LoadedNothing ==
    /\ lastSettingsDone.op = "loadSettings"
    /\ ~lastSettingsDone.ok \/ userSettingsItem = NoItem

\* C20: a settings load that finds nothing stored, cannot read, or cannot parse
\* what it read leaves exactly the default settings: km, min/km, kmh, light,
\* lockRotation true, gpsAccuracy high.
C20_LoadDefaults ==
    LoadedNothing =>
        /\ ~settingsIsLoading
        /\ settings = [distanceUnit |-> "km", paceUnit |-> "min/km", speedUnit |-> "kmh",
                       theme |-> "light", lockRotation |-> TRUE, gpsAccuracy |-> "high"]

\* getItem has rejected while other settings were stored
C20_Witness ==
    /\ LoadedNothing
    /\ userSettingsItem = Stringified(OtherSettings)
    /\ settings = DEFAULT_SETTINGS

\* a step in which useSettings is answered for a saveSettings
SaveSettingsStep ==
    /\ settingsInFlight # <<>>
    /\ settingsInFlight' = Tail(settingsInFlight)
    /\ Head(settingsInFlight).caller = "saveSettings"

\* C21: saveSettings replaces the whole object and only after the write: when
\* setItem rejects, the in-memory settings and the stored item stay as they
\* were; when it resolves, both equal the object that was saved.
C21_SaveSettings ==
    [][SaveSettingsStep =>
          IF lastSettingsDone'.ok
          THEN /\ settings' = Head(settingsInFlight).value
               /\ userSettingsItem' = Stringified(Head(settingsInFlight).value)
          ELSE /\ settings' = settings
               /\ userSettingsItem' = userSettingsItem]_vars

\* a save of other settings than those in memory has failed
C21_Witness ==
    /\ lastSettingsDone.op = "saveSettings"
    /\ ~lastSettingsDone.ok
    /\ lastSettingsDone.value # settings
    /\ ~settingsIsLoading

(***************************************************************************)
(* Properties of the step counter.                                         *)
(***************************************************************************)

\* a step in which the pedometer callback runs
StepEventStep == nStepEvents' # nStepEvents

\* a step in which startCounting subscribes, which begins a tracking session
CountingStart == nStepSubs' # nStepSubs

C23_AvailableLeadsToCounting ==
    (stepState.isAvailable /\ ~ScreenLeft)
        ~> (activeStepSubscriptions # {} \/ ScreenLeft)

(***************************************************************************)
(* Properties of the formatters.  The texts are read back field by field.  *)
(***************************************************************************)

IsDigits(text) == text # <<>> /\ \A i \in 1..Len(text) : \E d \in 1..10 : text[i] = DigitChars[d]

\* a whole number written without padding
Unpadded(text) == IsDigits(text) /\ (Len(text) = 1 \/ text[1] # "0")

\* the number that a text of digits denotes
RECURSIVE ValueOf(_)
ValueOf(text) ==
    IF text = <<>> THEN 0
    ELSE 10 * ValueOf(SubSeq(text, 1, Len(text) - 1))
             + ((CHOOSE d \in 1..10 : text[Len(text)] = DigitChars[d]) - 1)

\* the fields of a text between the occurrences of a separator
RECURSIVE Fields(_, _)
Fields(text, separator) ==
    IF \A i \in 1..Len(text) : text[i] # separator
    THEN <<text>>
    ELSE LET at == CHOOSE i \in 1..Len(text) :
                       text[i] = separator /\ \A j \in 1..(i - 1) : text[j] # separator
         IN  <<SubSeq(text, 1, at - 1)>> \o Fields(SubSeq(text, at + 1, Len(text)), separator)

TwoDigits(text) == Len(text) = 2 /\ IsDigits(text)

\* C24: formatTime(s) is M:SS when s < 3600 and H:MM:SS otherwise; its first
\* component is not padded, the others have two digits, S < 60, M < 60 when
\* hours are shown, and the components add up to s.
C24_FormatTime ==
    (formatterCall.fn = "formatTime" /\ formatterText # NoText)
        => LET s == formatterCall.value
               f == Fields(formatterText, ":")
           IN  IF s < 3600
               THEN /\ Len(f) = 2
                    /\ Unpadded(f[1])
                    /\ TwoDigits(f[2])
                    /\ ValueOf(f[2]) < 60
                    /\ ValueOf(f[1]) * 60 + ValueOf(f[2]) = s
               ELSE /\ Len(f) = 3
                    /\ Unpadded(f[1])
                    /\ TwoDigits(f[2])
                    /\ TwoDigits(f[3])
                    /\ ValueOf(f[2]) < 60
                    /\ ValueOf(f[3]) < 60
                    /\ ValueOf(f[1]) * 3600 + ValueOf(f[2]) * 60 + ValueOf(f[3]) = s

\* 3661 s has been rendered as 1:01:01
C24_Witness ==
    /\ formatterCall.fn = "formatTime"
    /\ formatterCall.value = 3661
    /\ formatterText = <<"1", ":", "0", "1", ":", "0", "1">>

\* C25: formatDistance renders the converted value with 2 decimals when it
\* is below 10 and with 1 decimal otherwise, whatever it rounds to, and the
\* text is the value rounded to that many decimals; 9999 m in km is 10.00
\* and 10000 m is 10.0.
C25_FormatDistance ==
    (formatterCall.fn = "formatDistance" /\ formatterText # NoText)
        => LET num == formatterCall.value
               den == UnitDivisor(formatterCall.unit)
               f == Fields(formatterText, ".")
               digits == IF num < 10 * den THEN 2 ELSE 1
               scale == IF digits = 2 THEN 100 ELSE 10
           IN  /\ Len(f) = 2
               /\ Unpadded(f[1])
               /\ IsDigits(f[2])
               /\ Len(f[2]) = digits
               /\ Abs(2 * num * scale - 2 * den * (ValueOf(f[1]) * scale + ValueOf(f[2]))) <= den
               /\ (num = 999900 /\ formatterCall.unit = "km")
                      => formatterText = <<"1", "0", ".", "0", "0">>
               /\ (num = 1000000 /\ formatterCall.unit = "km")
                      => formatterText = <<"1", "0", ".", "0">>

\* 9999 m has been rendered in km as 10.00
C25_Witness ==
    /\ formatterCall = [fn |-> "formatDistance", value |-> 999900, unit |-> "km"]
    /\ formatterText = <<"1", "0", ".", "0", "0">>

(***************************************************************************)
(* Properties of the location callback and of the ticker.                  *)
(***************************************************************************)

\* the fix at `longitude` is one whose delta the noise gate accepts
Accepted(longitude) ==
    /\ lastLocation # NullLocation
    /\ Significant(Abs(longitude - lastLocation.longitude))

C27_CurrentSpeed ==
    [][(FixStep /\ Accepted(last'.fix))
           => state'.currentSpeed = IF last'.speed # NoSpeed /\ last'.speed >= 0
                                    THEN last'.speed
                                    ELSE state.currentSpeed]_vars

\* C28: distance, currentSpeed, averageSpeed, elapsedTime and steps are
\* never negative.
C28_NonNegative ==
    /\ state.distance >= 0
    /\ state.currentSpeed >= 0
    /\ state.averageSpeed[1] >= 0
    /\ state.averageSpeed[2] > 0
    /\ state.elapsedTime >= 0
    /\ stepState.steps >= 0

\* C29: after an accepted fix, averageSpeed is the new distance divided by
\* the seconds since the start of the run, or by 1 when less than a second
\* has passed, in which case averageSpeed is the distance itself.
C29_AverageSpeed ==
    [][(FixStep /\ Accepted(last'.fix))
           => LET sinceStart == now - startTime
                  average == state'.averageSpeed
              IN  /\ state'.distance
                         = state.distance + Abs(last'.fix - lastLocation.longitude)
                  /\ IF sinceStart <= 1000
                     THEN average = <<state'.distance, 1>>
                     ELSE average[1] * sinceStart
                              = average[2] * state'.distance * 1000]_vars

\* a fix has been accepted 1.2 s after the start: the average is below the distance
C29_Witness ==
    /\ last.op = "locationCallback"
    /\ Significant(last.arg)
    /\ now - startTime = 1200
    /\ state.distance = last.arg
    /\ state.averageSpeed[1] * 1200 = state.averageSpeed[2] * state.distance * 1000
    /\ state.averageSpeed # <<state.distance, 1>>

\* C30: a tick during tracking sets elapsedTime to the whole seconds between
\* the start of the current run and now, however many ticks came before, and
\* elapsedTime does not decrease during a run.
C30_ElapsedTime ==
    [][/\ (state.isTracking /\ last'.op = "timerTick" /\ timerCallback)
              => state'.elapsedTime = (now - startTime) \div 1000
       /\ (state.isTracking /\ ~TrackingStart)
              => state'.elapsedTime >= state.elapsedTime]_vars

\* a tick 1.2 s after the start of the run shows 1 s
C30_Witness ==
    /\ last.op = "timerTick"
    /\ state.isTracking
    /\ now - startTime = 1200
    /\ state.elapsedTime = 1

(***************************************************************************)
(* Properties of the permission requests, of the atomic update, of the     *)
(* sessions of the step counter and of the consistency of the stores.      *)
(***************************************************************************)

\* C31: at most one call of requestForegroundPermissionsAsync is awaiting
\* its answer at any time.
C31_OneRequestInFlight == pendingPermission <= 1

\* C32: a step in which a fix changes distance also leaves the averageSpeed
\* and the currentSpeed of that fix, and no step but an accepted fix or the
\* reset of a start changes any of the three.
C32_AtomicUpdate ==
    [][/\ (FixStep /\ state'.distance # state.distance)
              => /\ Accepted(last'.fix)
                 /\ state'.averageSpeed
                        = Quot(state'.distance * 1000, Max(now - startTime, 1000))
                 /\ state'.currentSpeed = SpeedOrZero(last'.speed)
       /\ (~FixStep /\ ~TrackingStart)
              => /\ state'.distance = state.distance
                 /\ state'.averageSpeed = state.averageSpeed
                 /\ state'.currentSpeed = state.currentSpeed]_vars

\* a fix reporting 3 m/s has been accepted
C32_Witness ==
    /\ last.op = "locationCallback"
    /\ last.speed = 300
    /\ state.distance = last.arg
    /\ state.currentSpeed = 300
    /\ state.averageSpeed = <<state.distance, 1>>

\* C33: a startCounting that subscribes sets steps to 0, and every step event
\* counted afterwards is delivered by the subscription of the session in
\* progress, never by the subscription of an earlier session.
C33_OnlyNewSession ==
    [][/\ CountingStart => stepState'.steps = 0
       /\ StepEventStep => lastStepSubscription' = subscription]_vars

\* C34: in every state of the history store the in-memory list is ordered by
\* start timestamp, latest first.
C34_AlwaysNewestFirst == NewestFirst(runs)

\* a step that answers, with a successful write, a saveRun that the mounted
\* history screen called while its loadRunHistory was the last request in flight
SaveBehindLoadStep ==
    /\ AnswerStep
    /\ Head(inFlight).caller = "saveRun"
    /\ Head(inFlight).behind = "loadRunHistory"
    /\ Head(inFlight).mount = mounts
    /\ lastDone'.ok

\* C35: when a saveRun called before the load has finished is completed, the
\* persisted list and the in-memory list hold the sessions that were persisted
\* before and the new one.
C35_SaveBeforeLoadKeepsStored ==
    [][SaveBehindLoadStep =>
          /\ Elements(runHistoryItem.value) \subseteq Elements(runHistoryItem'.value)
          /\ Elements(runHistoryItem.value) \subseteq Elements(runs')
          /\ Head(inFlight).value[1] \in Elements(runHistoryItem'.value) \cap Elements(runs')]_vars

\* nothing is in flight on the history key, and the request answered last
\* read or wrote storage successfully
HistoryQuiet == inFlight = <<>> /\ lastDone.op # "mount" /\ lastDone.ok

\* C36: whenever no history operation is in flight and storage has answered
\* successfully, the in-memory list equals the persisted list.
C36_MemoryEqualsStorage == HistoryQuiet => runs = runHistoryItem.value

\* the settings that are persisted: the stored object, or the defaults when
\* nothing that parses is stored
PersistedSettings ==
    IF userSettingsItem.kind = "json" THEN userSettingsItem.value ELSE DEFAULT_SETTINGS

\* the initial load has been answered and no settings operation is in flight
SettingsQuiet == settingsInFlight = <<>> /\ ~settingsIsLoading

C38_FirstFixAddsNothing ==
    [][/\ TrackingStart => lastLocation' = NullLocation
       /\ (lastLocation = NullLocation /\ ~FixStep) => lastLocation' = NullLocation
       /\ (lastLocation = NullLocation /\ FixStep)
              => /\ state'.distance = state.distance
                 /\ last'.arg = -1]_vars

\* a fix was delivered, a run was started after it, and the first fix of that
\* run found no previous fix and left the distance at 0
C38_Witness ==
    /\ nFixes = 2
    /\ last.op = "locationCallback"
    /\ last.arg = -1
    /\ last.fix = 201
    /\ lastLocation # NullLocation
    /\ state.isTracking
    /\ state.distance = 0

\* C39: in every state in which no startTracking is waiting for
\* watchPositionAsync, isTracking implies that the position watch of the run
\* is held and active.
C39_TrackingHasSubscription ==
    (pendingWatch = 0 /\ state.isTracking)
        => /\ locationSubscription # Null
           /\ locationSubscription \in activeSubscriptions

\* C40: hasPermission and permissionError are never both true.
C40_PermissionFlagsExclusive == ~(state.hasPermission /\ state.permissionError)
====
